---------------------------- MODULE Spec2Model ----------------------------
(***************************************************************************)
(* A model of pyrxiv: the metadata fetcher with its de-duplication ledger  *)
(* (fetcher.py), the PDF downloader (downloader.py) and the text extractor *)
(* with its two cleaning functions (extractor.py).                         *)
(*                                                                         *)
(* Strings are sequences of characters/tokens, so that the conversions the *)
(* code performs (str.strip, the blank-line filter of the ledger reader,   *)
(* the regular expressions) are computed and not assumed.                  *)
(***************************************************************************)
EXTENDS Integers, Sequences, FiniteSets, TLC

VARIABLES
    \* ---- the upstream feed and the fetcher's configuration
    feed,          \* the upstream listing, newest first (fixed during a behaviour)
    max_results,   \* ArxivFetcher.max_results
    batch_size,    \* the batch_size argument of fetch
    \* ---- persisted state
    ledger,        \* fetched_arxiv_ids.txt: the sequence of its lines (without "\n")
    files,         \* the content folder: the files in it, [name, content]
    \* ---- one fetch call
    pc,            \* "idle" | "loop" (inside fetch)
    fetched_ids,   \* local set fetched_ids of fetch
    new_papers,    \* local list new_papers of fetch
    start_index,   \* local cursor start_index of fetch
    requests,      \* the page requests of the call: <<start, max_results>> pairs
    log,           \* the log entries of the call, [level, event]
    \* ---- what the last finished fetch call handed to its caller
    outcome,       \* "none" | "returned" | "raised"
    ret,           \* the returned list (<<>> when the call raised)
    exit,          \* "none" | "empty_page" | "all_valid" | "not_all_valid" | the exception
    \* ---- history of the fetch call, for stating the properties
    ledger0,       \* the ledger when the call started
    accepted,      \* identifiers of the records accepted (lines 168-185), in order
    rejected,      \* the entries rejected by validation (lines 117-134), in order
    ncalls,        \* number of fetch calls started
    \* ---- the last call of download_pdf or get_text: its arguments, what the
    \* ---- network or the backend did, and its result
    dl,
    gt,
    \* ---- the text functions: the input text and the last result
    text,          \* the argument
    refs_out,      \* what delete_references(text) returned
    clean_out,     \* what clean_text(text) returned
    text_log,      \* log entries of the text functions
    applied,       \* the functions applied to text so far
    \* ---- one run of an orchestrator (arxiv_fetch_and_extract or
    \* ---- download_pattern_papers)
    orch,          \* its arguments, its position and its local variables
    docs,          \* the PDFs upstream, by identifier, as far as they were seen
    trace,         \* history: what happened to each record the run processed
    \* ---- one feed entry taken through lines 116-183 of fetch
    feed_entry,    \* the entry, as xmltodict hands it over
    record         \* what became of it: rejected, raised, or the ArxivPaper built

fetchVars == <<feed, max_results, batch_size, ledger, pc, fetched_ids, new_papers,
               start_index, requests, log, outcome, ret, exit, ledger0, accepted,
               rejected, ncalls>>

ioVars == <<files, dl, gt>>

textVars == <<text, refs_out, clean_out, text_log, applied>>

orchVars == <<orch, docs, trace>>

recVars == <<feed_entry, record>>

vars == <<fetchVars, ioVars, textVars, orchVars, recVars>>

---------------------------------------------------------------------------
(* Bounds of the model *)

MaxFeed == 3        \* entries in the upstream feed
MaxResults == 4     \* max_results ranges over 1..MaxResults
MaxBatch == 2       \* batch_size ranges over 1..MaxBatch
MaxCalls == 2       \* fetch calls on the same ledger file

---------------------------------------------------------------------------
(* Small helpers on sequences *)

Min(a, b) == IF a <= b THEN a ELSE b

Range(s) == {s[i] : i \in DOMAIN s}

SeqsUpTo(S, n) == UNION {[1..k -> S] : k \in 0..n}

RECURSIVE MapId(_)
MapId(items) ==
    IF items = <<>> THEN <<>> ELSE <<Head(items).id>> \o MapId(Tail(items))

---------------------------------------------------------------------------
(* Identifiers and ledger lines are strings: sequences of characters.      *)

Whitespace == {" ", "\t", "\n"}

RECURSIVE LStrip(_)
LStrip(s) ==
    IF s # <<>> /\ Head(s) \in Whitespace THEN LStrip(Tail(s)) ELSE s

RECURSIVE RStrip(_)
RStrip(s) ==
    IF s # <<>> /\ s[Len(s)] \in Whitespace
    THEN RStrip(SubSeq(s, 1, Len(s) - 1)) ELSE s

\* str.strip()
Strip(s) == LStrip(RStrip(s))

\* The identifiers the feed may carry as last URL segment.  The empty one is
\* the last segment of "http://arxiv.org/abs/".
Ids == {<<>>, <<"1">>, <<"2">>}

\* ArxivFetcher.fetched_ids: the stripped, non-blank lines of the ledger file
FetchedIdsOf(lines) ==
    {Strip(lines[i]) : i \in {j \in DOMAIN lines : Strip(lines[j]) # <<>>}}

---------------------------------------------------------------------------
(* Feed entries, as xmltodict hands them to fetch.                         *)
(*   title   : "text" | "Error" (contains the marker) | "missing"          *)
(*   url     : [kind |-> "missing"] | [kind |-> "junk"] (no "arxiv.org")   *)
(*             | [kind |-> "abs", id |-> last path segment]                *)
(*   summary : TRUE when a non-empty <summary> is present                  *)
(*   author  : "none" | "named" | "unnamed" (an <author> without <name>)   *)

NoUrl == [kind |-> "missing", id |-> <<>>]
JunkUrl == [kind |-> "junk", id |-> <<>>]
AbsUrl(id) == [kind |-> "abs", id |-> id]

Entry(t, u, s, a) == [title |-> t, url |-> u, summary |-> s, author |-> a]

Good(id) == Entry("text", AbsUrl(id), TRUE, "named")
ErrorTitleEntry == Entry("Error", NoUrl, FALSE, "none")
JunkUrlEntry == Entry("text", JunkUrl, FALSE, "none")
NoUrlEntry == Entry("text", NoUrl, TRUE, "named")
NoSummaryEntry == Entry("text", AbsUrl(<<"1">>), FALSE, "none")
NoTitleEntry == Entry("missing", AbsUrl(<<"2">>), TRUE, "named")
UnnamedAuthorEntry == Entry("text", AbsUrl(<<"1">>), TRUE, "unnamed")
NoAuthorEntry == Entry("text", AbsUrl(<<"2">>), TRUE, "none")

Entries ==
    {Good(id) : id \in Ids} \cup
    {ErrorTitleEntry, JunkUrlEntry, NoUrlEntry, NoSummaryEntry, NoTitleEntry,
     UnnamedAuthorEntry, NoAuthorEntry}

\* Elements of the lists `papers` and `new_papers`: a raw feed entry (a dict)
\* or an ArxivPaper built from one.
Raw(e) == [kind |-> "dict", id |-> <<>>, entry |-> e]
ArxivPaper(id, e) == [kind |-> "ArxivPaper", id |-> id, entry |-> e]

RECURSIVE RawPage(_)
RawPage(es) == IF es = <<>> THEN <<>> ELSE <<Raw(Head(es))>> \o RawPage(Tail(es))

LogEntry(level, event) == [level |-> level, event |-> event]


---------------------------------------------------------------------------
(* ArxivFetcher.fetch: the body of the `for paper in papers` loop.         *)
(*                                                                         *)
(* The loop state s has the two list variables of the code, `papers` (the  *)
(* list the for loop iterates) and `new_papers`; `alias` tells that both   *)
(* names are bound to the same list object, which is what the assignment   *)
(* `new_papers = papers` of the three rejection branches makes them.       *)

\* "Error" in paper.get("title", "")
TitleHasError(e) == e.title = "Error"

\* (mutant) the check of the identifier URL is missing
ValidUrl_Any(u) == TRUE

\* not (not url_id or "arxiv.org" not in url_id)
ValidUrl(u) == u.kind = "abs"

\* url_id.split("/")[-1].replace(".pdf", "")
ArxivIdOf(u) == u.id

\* Author(name=author.get("name")) and ArxivPaper(title=paper.get("title")):
\* pydantic refuses None for the required str fields `name` and `title`.
Constructible(e) == e.author # "unnamed" /\ e.title # "missing"

\* lines 118-120, 125-127, 132-134: log, rebind new_papers to the page, continue
Reject(s, e, event) ==
    [s EXCEPT !.new_papers = s.papers,
              !.alias = TRUE,
              !.log = Append(s.log, LogEntry("error", event)),
              !.rejected = Append(s.rejected, e)]

\* new_papers.append(ArxivPaper(...)): through an alias the page grows too
AppendPaper(s, p) ==
    IF s.alias
    THEN [s EXCEPT !.papers = Append(s.papers, p),
                   !.new_papers = Append(s.papers, p)]
    ELSE [s EXCEPT !.new_papers = Append(s.new_papers, p)]

\* lines 141-186, for an entry that passed validation and de-duplication
Accept(s, e, arxiv_id) ==
    LET s1 == IF e.author = "none"
              THEN [s EXCEPT !.log = Append(s.log,
                                  LogEntry("info", "Paper without authors."))]
              ELSE s
        s2 == AppendPaper(s1, ArxivPaper(arxiv_id, e))
    IN [s2 EXCEPT !.fetched_ids = s.fetched_ids \cup {arxiv_id},
                  !.accepted = Append(s.accepted, arxiv_id),
                  !.log = Append(s2.log, LogEntry("info", "Paper fetched from arXiv."))]

\* lines 115-189: the for loop from its i-th iteration on; maxres is
\* self.max_results.  s.raised names the exception that ended the loop.
RECURSIVE ForPapers(_, _, _)
ForPapers(i, s, maxres) ==
    IF i > Len(s.papers) THEN s
    ELSE LET paper == s.papers[i] IN
        IF paper.kind = "ArxivPaper"
        THEN \* paper.get(...) on a pydantic model
             [s EXCEPT !.raised = "AttributeError"]
        ELSE LET e == paper.entry IN
            IF TitleHasError(e)
            THEN ForPapers(i + 1, Reject(s, e, "Error fetching the paper"), maxres)
            ELSE IF ~ValidUrl(e.url)
            THEN ForPapers(i + 1, Reject(s, e, "Paper without a valid URL id"), maxres)
            ELSE IF ~e.summary
            THEN ForPapers(i + 1, Reject(s, e, "Paper without summary/abstract"), maxres)
            ELSE LET arxiv_id == ArxivIdOf(e.url) IN
                IF arxiv_id \in s.fetched_ids
                THEN ForPapers(i + 1, s, maxres)
                ELSE IF ~Constructible(e)
                THEN [s EXCEPT !.raised = "ValidationError"]
                ELSE LET s2 == Accept(s, e, arxiv_id) IN
                    IF Len(s2.new_papers) >= maxres
                    THEN s2
                    ELSE ForPapers(i + 1, s2, maxres)

\* The answer of the upstream API to start=<start>&max_results=<n>
Upstream(start, n) == SubSeq(feed, start + 1, Min(start + n, Len(feed)))

\* line 194: all(isinstance(p, ArxivPaper) and p.id is not None ...); the id
\* of an ArxivPaper is a required str, never None
AllValidWithId(items) ==
    \A i \in DOMAIN items : items[i].kind = "ArxivPaper"

\* (mutant) an empty page ends the call with what was accumulated
EmptyPageResult_Partial(accumulated) == accumulated

\* line 109: return []
EmptyPageResult(accumulated) == <<>>

\* (mutant) the cursor stays where it is
NextStartIndex_Stuck(start, batch) == start

\* line 191: start_index += batch_size
NextStartIndex(start, batch) == start + batch

\* line 200
AllArxivPaper(items) ==
    \A i \in DOMAIN items : items[i].kind = "ArxivPaper"

---------------------------------------------------------------------------
(* TextExtractor.delete_references and TextExtractor.clean_text.           *)
(*                                                                         *)
(* A text is a sequence of tokens.  "\n", " ", "\t" and "-" are the        *)
(* characters; "a" is any other letter; "REF" is one of the heading words  *)
(* References / Bibliography; "SUP" one of Supplemental Material /         *)
(* Supplemental Information / Appendices; "[1]" the citation mark; "ARX"   *)
(* an identifier arXiv:NNNN.NNNNN(vN).  The regular expressions are        *)
(* matched token by token.                                                 *)

Blank == {" ", "\t"}                       \* [ \t]
\* tokens that begin with a letter ("DMFT": the word DMFT_PATTERN looks for)
Letters == {"a", "REF", "SUP", "ARX", "DMFT"}

\* The last index of the run of tokens of S that starts at i (i - 1: no run)
RECURSIVE RunEnd(_, _, _)
RunEnd(t, i, S) ==
    IF i <= Len(t) /\ t[i] \in S THEN RunEnd(t, i + 1, S) ELSE i - 1

\* The least element of a set of indices, or 0 when it is empty
LeastOrZero(M) == IF M = {} THEN 0 ELSE CHOOSE i \in M : \A j \in M : i <= j

\* pattern_start matches at i: \nReferences\n | \nBibliography\n | \n\[1\] *[A-Z]
\* (re.IGNORECASE: [A-Z] is any letter)
StartMatchAt(t, i) ==
    /\ t[i] = "\n"
    /\ i + 1 <= Len(t)
    /\ \/ t[i + 1] = "REF" /\ i + 2 <= Len(t) /\ t[i + 2] = "\n"
       \/ /\ t[i + 1] = "[1]"
          /\ LET j == RunEnd(t, i + 2, {" "}) + 1
             IN j <= Len(t) /\ t[j] \in Letters

\* pattern_end matches at i: \nSupplemental Material[\:\n]* | ... | \nAppendices[\:\n]*
EndMatchAt(t, i) ==
    /\ t[i] = "\n"
    /\ i + 1 <= Len(t)
    /\ t[i + 1] = "SUP"

\* re.search(pattern_start, text).start() + 1, or 0 without a match
SearchStart(t) == LeastOrZero({i \in 1..Len(t) : StartMatchAt(t, i)})

\* re.search(pattern_end, text).start() + 1, or 0 without a match: the search
\* runs over the whole text, from its beginning
SearchEnd(t) == LeastOrZero({i \in 1..Len(t) : EndMatchAt(t, i)})

\* lines 99-107
delete_references(t) ==
    LET start == SearchStart(t)
        end == SearchEnd(t)
    IN IF start # 0
       THEN IF end # 0
            THEN SubSeq(t, 1, start - 1) \o SubSeq(t, end, Len(t))
            ELSE SubSeq(t, 1, start - 1)
       ELSE t

\* line 129: re.sub(r"-\s*\n\s*", "", text).  After a hyphen the pattern takes
\* the whole whitespace run when the run has a newline, and does not match
\* otherwise.
RECURSIVE JoinFrom(_, _)
JoinFrom(t, i) ==
    IF i > Len(t) THEN <<>>
    ELSE IF t[i] = "-"
         THEN LET j == RunEnd(t, i + 1, Whitespace)
              IN IF \E k \in (i + 1)..j : t[k] = "\n"
                 THEN JoinFrom(t, j + 1)
                 ELSE <<t[i]>> \o JoinFrom(t, i + 1)
         ELSE <<t[i]>> \o JoinFrom(t, i + 1)

JoinHyphens(t) == JoinFrom(t, 1)

\* line 132: re.sub(r"\n{2,}", "\n\n", text)
RECURSIVE CollapseNewlinesFrom(_, _)
CollapseNewlinesFrom(t, i) ==
    IF i > Len(t) THEN <<>>
    ELSE IF t[i] = "\n" /\ RunEnd(t, i, {"\n"}) > i
         THEN <<"\n", "\n">> \o CollapseNewlinesFrom(t, RunEnd(t, i, {"\n"}) + 1)
         ELSE <<t[i]>> \o CollapseNewlinesFrom(t, i + 1)

CollapseNewlines(t) == CollapseNewlinesFrom(t, 1)

\* line 135: re.sub(r"arXiv:\d{4}\.\d{4,5}(v\d+)?", "", text)
IsNotArxivId(c) == c # "ARX"
StripArxivIds(t) == SelectSeq(t, IsNotArxivId)

\* line 138: re.sub(r"[ \t]+", " ", text)
RECURSIVE CollapseBlanksFrom(_, _)
CollapseBlanksFrom(t, i) ==
    IF i > Len(t) THEN <<>>
    ELSE IF t[i] \in Blank
         THEN <<" ">> \o CollapseBlanksFrom(t, RunEnd(t, i, Blank) + 1)
         ELSE <<t[i]>> \o CollapseBlanksFrom(t, i + 1)

CollapseBlanks(t) == CollapseBlanksFrom(t, 1)

\* line 139: re.sub(r"\n[ \t]+", "\n", text)
RECURSIVE StripIndentFrom(_, _)
StripIndentFrom(t, i) ==
    IF i > Len(t) THEN <<>>
    ELSE IF t[i] = "\n"
         THEN <<"\n">> \o StripIndentFrom(t, RunEnd(t, i + 1, Blank) + 1)
         ELSE <<t[i]>> \o StripIndentFrom(t, i + 1)

StripIndent(t) == StripIndentFrom(t, 1)

\* line 142: re.sub(r"\n+", " ", text)
RECURSIVE FlattenNewlinesFrom(_, _)
FlattenNewlinesFrom(t, i) ==
    IF i > Len(t) THEN <<>>
    ELSE IF t[i] = "\n"
         THEN <<" ">> \o FlattenNewlinesFrom(t, RunEnd(t, i, {"\n"}) + 1)
         ELSE <<t[i]>> \o FlattenNewlinesFrom(t, i + 1)

\* (mutant) the newlines are left in the text
FlattenNewlines_Kept(t) == t

FlattenNewlines(t) == FlattenNewlinesFrom(t, 1)

\* lines 124-144: the returned text and the log entries
clean_text(t) ==
    IF t = <<>>
    THEN [text |-> <<>>,
          log |-> <<LogEntry("warning", "No text provided for cleaning.")>>]
    ELSE [text |-> Strip(FlattenNewlines(StripIndent(CollapseBlanks(
                       StripArxivIds(CollapseNewlines(JoinHyphens(t))))))),
          log |-> <<>>]

---------------------------------------------------------------------------
(* ArxivDownloader.download_pdf                                            *)

\* A path: None, the empty string, <data_folder>/<name>.pdf, or some other
\* existing path that does not end in ".pdf" (the default "." is one)
NonePath == [kind |-> "None", name |-> <<>>]
EmptyPath == [kind |-> "empty", name |-> <<>>]
PdfPath(id) == [kind |-> "pdf", name |-> id]
OtherPath == [kind |-> "other", name |-> <<>>]

\* A file of the content folder; its content is whole or cut short
File(id, content) == [name |-> id, content |-> content]

\* open(pdf_path, "wb") and the chunks written: the file is created or replaced
WriteFile(fs, id, content) ==
    {f \in fs : f.name # id} \cup {File(id, content)}

\* What the network does to one download.  "stream_error" is a failure of
\* response.iter_content after a good status line.
NetOutcomes == {"ok", "timeout", "connection_error", "http_error", "stream_error"}

\* (mutant) only the failures of session.get and raise_for_status are caught
download_pdf_StreamUncaught(id, write, net, fs) ==
    IF net \in {"timeout", "connection_error", "http_error"}
    THEN [outcome |-> "returned", ret |-> NonePath, files |-> fs,
          log |-> <<LogEntry("error", "Failed to download PDF")>>]
    ELSE IF write /\ net = "stream_error"
    THEN [outcome |-> "raised", ret |-> NonePath,
          files |-> WriteFile(fs, id, "partial"), log |-> <<>>]
    ELSE [outcome |-> "returned", ret |-> PdfPath(id),
          files |-> IF write THEN WriteFile(fs, id, "whole") ELSE fs,
          log |-> <<LogEntry("info", "PDF downloaded")>>]

\* lines 14-31: the value handed back, the log entries and the content folder
download_pdf(id, write, net, fs) ==
    IF net \in {"timeout", "connection_error", "http_error"}
    THEN \* session.get or raise_for_status raises a RequestException
         [outcome |-> "returned", ret |-> NonePath, files |-> fs,
          log |-> <<LogEntry("error", "Failed to download PDF")>>]
    ELSE IF write /\ net = "stream_error"
    THEN \* iter_content raises a RequestException inside the with block
         [outcome |-> "returned", ret |-> NonePath,
          files |-> WriteFile(fs, id, "partial"),
          log |-> <<LogEntry("error", "Failed to download PDF")>>]
    ELSE [outcome |-> "returned", ret |-> PdfPath(id),
          files |-> IF write THEN WriteFile(fs, id, "whole") ELSE fs,
          log |-> <<LogEntry("info", "PDF downloaded")>>]

---------------------------------------------------------------------------
(* TextExtractor.get_text                                                  *)

\* Path(str(pdf_path)).exists(): str(None) is "None", which names no file
PathExists(p, fs) ==
    \/ p.kind = "other"
    \/ p.kind = "pdf" /\ \E f \in fs : f.name = p.name

\* lines 44-50: the verdict and the log entries
_check_pdf_path(p, fs) ==
    IF p.kind = "empty"
    THEN [ok |-> FALSE, log |-> <<LogEntry("error", "No PDF path provided.")>>]
    ELSE [ok |-> PathExists(p, fs) /\ p.kind = "pdf", log |-> <<>>]

\* self.available_loaders
AvailableLoaders == {"pypdf", "pdfminer"}

RECURSIVE Concat(_)
Concat(pages) == IF pages = <<>> THEN <<>> ELSE Head(pages) \o Concat(Tail(pages))

\* lines 65-84.  backend is what the loader does when invoked: it fails, or it
\* yields pages.  The empty list of line 67 and 77 and the empty string are
\* both the empty sequence.
get_text(p, loader, backend, fs) ==
    LET chk == _check_pdf_path(p, fs) IN
    IF ~chk.ok
    THEN [outcome |-> "returned", ret |-> <<>>, log |-> chk.log, invoked |-> FALSE]
    ELSE IF loader \notin AvailableLoaders
    THEN [outcome |-> "returned", ret |-> <<>>, invoked |-> FALSE,
          log |-> Append(chk.log, LogEntry("error", "Loader not available"))]
    ELSE IF backend.fails
    THEN [outcome |-> "raised", ret |-> <<>>, log |-> chk.log, invoked |-> TRUE]
    ELSE [outcome |-> "returned", ret |-> Concat(backend.pages), log |-> chk.log,
          invoked |-> TRUE]

---------------------------------------------------------------------------
(* The fetch call as a state machine *)

Feeds == SeqsUpTo(Entries, MaxFeed)

\* No download_pdf or get_text call yet, an empty content folder
NoDownload == [id |-> <<>>, write |-> TRUE, net |-> "ok", outcome |-> "none",
               ret |-> NonePath, log |-> <<>>]
NoGetText == [path |-> NonePath, loader |-> "pdfminer", fails |-> FALSE,
              outcome |-> "none", ret |-> <<>>, log |-> <<>>, invoked |-> FALSE]

InitIdleIO ==
    /\ files = {}
    /\ dl = NoDownload
    /\ gt = NoGetText

\* No orchestrator was called, no PDF was seen
NoDoc == [known |-> FALSE, fails |-> FALSE, pages |-> <<>>]
NoOrch == [fn |-> "none", pc |-> "idle", loader |-> "pdfminer", n_left |-> 0,
           fetched |-> 0, papers |-> <<>>, i |-> 0, files |-> <<>>,
           all_papers |-> <<>>]

\* No entry was taken through the loop body
NoEntry == [title |-> "missing", id |-> [present |-> FALSE, url |-> <<>>],
            summary |-> FALSE, author |-> <<>>, category |-> [shape |-> "missing"],
            comment |-> [shape |-> "missing"]]
NoRecord == [status |-> "none"]

InitIdleOrch ==
    /\ orch = NoOrch
    /\ docs = [id \in Ids |-> NoDoc]
    /\ trace = <<>>
    /\ feed_entry = NoEntry
    /\ record = NoRecord

InitIdleText ==
    /\ text = <<>>
    /\ refs_out = <<>>
    /\ clean_out = <<>>
    /\ text_log = <<>>
    /\ applied = {}

InitIdleFetch ==
    /\ feed = <<>>
    /\ max_results = 1
    /\ batch_size = 1
    /\ ledger = <<>>
    /\ pc = "idle"
    /\ fetched_ids = {}
    /\ new_papers = <<>>
    /\ start_index = 0
    /\ requests = <<>>
    /\ log = <<>>
    /\ outcome = "none"
    /\ ret = <<>>
    /\ exit = "none"
    /\ ledger0 = <<>>
    /\ accepted = <<>>
    /\ rejected = <<>>
    /\ ncalls = 0

Init ==
    /\ feed \in Feeds
    /\ max_results \in 1..MaxResults
    /\ batch_size \in 1..MaxBatch
    /\ ledger = <<>>
    /\ pc = "idle"
    /\ fetched_ids = {}
    /\ new_papers = <<>>
    /\ start_index = 0
    /\ requests = <<>>
    /\ log = <<>>
    /\ outcome = "none"
    /\ ret = <<>>
    /\ exit = "none"
    /\ ledger0 = <<>>
    /\ accepted = <<>>
    /\ rejected = <<>>
    /\ ncalls = 0
    /\ InitIdleIO
    /\ InitIdleText
    /\ InitIdleOrch

\* lines 85-89: the call starts by reading the ledger
FetchBegin ==
    /\ pc = "idle"
    /\ ncalls < MaxCalls
    /\ pc' = "loop"
    /\ ncalls' = ncalls + 1
    /\ fetched_ids' = FetchedIdsOf(ledger)
    /\ new_papers' = <<>>
    /\ start_index' = 0
    /\ requests' = <<>>
    /\ log' = <<>>
    /\ outcome' = "none"
    /\ ret' = <<>>
    /\ exit' = "none"
    /\ ledger0' = ledger
    /\ accepted' = <<>>
    /\ rejected' = <<>>
    /\ UNCHANGED <<feed, max_results, batch_size, ledger, ioVars, textVars, orchVars, recVars>>

\* How a call ends: its value (or exception) reaches the caller
Finish(how, value, why) ==
    /\ pc' = "idle"
    /\ outcome' = how
    /\ ret' = value
    /\ exit' = why

\* lines 90-101: the request of one page fails in transport; urlopen raises
\* URLError, which nothing in fetch catches
FetchPageTransportError ==
    /\ pc = "loop"
    /\ Len(new_papers) < max_results
    /\ requests' = Append(requests,
                          <<start_index, Min(batch_size, max_results - Len(new_papers))>>)
    /\ Finish("raised", <<>>, "URLError")
    /\ UNCHANGED <<feed, max_results, batch_size, ledger, fetched_ids, new_papers,
                   start_index, log, ledger0, accepted, rejected, ncalls,
                   ioVars, textVars, orchVars, recVars>>

\* lines 90-191: one iteration of the while loop
FetchPage ==
    /\ pc = "loop"
    /\ Len(new_papers) < max_results
    /\ LET remaining == max_results - Len(new_papers)
           current_batch_size == Min(batch_size, remaining)
           papers == RawPage(Upstream(start_index, current_batch_size))
           s0 == [papers |-> papers, new_papers |-> new_papers, alias |-> FALSE,
                  fetched_ids |-> fetched_ids, log |-> log, raised |-> "no",
                  accepted |-> accepted, rejected |-> rejected]
           s == ForPapers(1, s0, max_results)
       IN /\ requests' = Append(requests, <<start_index, current_batch_size>>)
          /\ IF papers = <<>>
             THEN \* lines 107-109
                  /\ log' = Append(log, LogEntry("info", "No papers found in the response"))
                  /\ Finish("returned", EmptyPageResult(new_papers), "empty_page")
                  /\ UNCHANGED <<new_papers, fetched_ids, start_index, accepted, rejected>>
             ELSE /\ new_papers' = s.new_papers
                  /\ fetched_ids' = s.fetched_ids
                  /\ log' = s.log
                  /\ accepted' = s.accepted
                  /\ rejected' = s.rejected
                  /\ IF s.raised # "no"
                     THEN /\ Finish("raised", <<>>, s.raised)
                          /\ UNCHANGED start_index
                     ELSE /\ start_index' = NextStartIndex(start_index, batch_size)
                          /\ UNCHANGED <<pc, outcome, ret, exit>>
    /\ UNCHANGED <<feed, max_results, batch_size, ledger, ledger0, ncalls,
                   ioVars, textVars, orchVars, recVars>>

\* f.write(f"{paper.id}\n") for each paper, in append mode
AppendIds(lines, items) == lines \o MapId(items)

\* lines 193-203: the loop is over; save the identifiers and return
FetchSave ==
    /\ pc = "loop"
    /\ Len(new_papers) >= max_results
    /\ ledger' = IF AllValidWithId(new_papers)
                 THEN AppendIds(ledger, new_papers) ELSE ledger
    /\ IF ~AllArxivPaper(new_papers)
       THEN Finish("returned", <<>>, "not_all_valid")
       ELSE Finish("returned", new_papers, "all_valid")
    /\ UNCHANGED <<feed, max_results, batch_size, fetched_ids, new_papers,
                   start_index, requests, log, ledger0, accepted, rejected, ncalls,
                   ioVars, textVars, orchVars, recVars>>

Next ==
    \/ FetchBegin
    \/ FetchPageTransportError
    \/ FetchPage
    \/ FetchSave

Spec == Init /\ [][Next]_vars

---------------------------------------------------------------------------
(* Properties of fetch *)

\* A fetch call has ended and its result is with the caller
FetchEnded == pc = "idle" /\ outcome # "none"

\* The identifiers the ledger file holds, one per line
LedgerIds(lines) == Range(lines)

\* The lines the current call has appended to the ledger
AppendedLines == SubSeq(ledger, Len(ledger0) + 1, Len(ledger))

NoDuplicates(ids) ==
    \A i, j \in DOMAIN ids : ids[i] = ids[j] => i = j

\* C1 (as claimed): every record a fetch call accepts or returns has an
\* identifier that is not in the ledger as persisted when the call started,
\* and no two records accepted or returned by one call share an identifier.
C1_NeverRefetched ==
    /\ \A i \in DOMAIN accepted : accepted[i] \notin LedgerIds(ledger0)
    /\ NoDuplicates(accepted)
    /\ \A i \in DOMAIN ret : ret[i].id \notin LedgerIds(ledger0)
    /\ NoDuplicates(MapId(ret))

\* C2 (as claimed): the lines a fetch call appends to the ledger are the
\* identifiers of the records it returns, in order, once each, after the lines
\* that were there; and a call whose accumulated list holds an element that is
\* not an ArxivPaper appends nothing and returns the empty list.
C2_LedgerMatchesReturn ==
    /\ Len(ledger) >= Len(ledger0)
    /\ SubSeq(ledger, 1, Len(ledger0)) = ledger0
    /\ pc = "loop" => ledger = ledger0
    /\ FetchEnded =>
          /\ AppendedLines = MapId(ret)
          /\ (\E i \in DOMAIN new_papers : new_papers[i].kind # "ArxivPaper")
                 => ledger = ledger0 /\ outcome = "returned" /\ ret = <<>>

\* C3 (as claimed): when a call that ran to its end rejected an entry, the
\* records accepted in that call, before or after the rejection, are all
\* returned and their identifiers appended to the ledger.
C3_OnlyTheEntryIsSkipped ==
    (FetchEnded /\ exit \in {"all_valid", "not_all_valid"} /\ rejected # <<>>)
        => /\ MapId(ret) = accepted
           /\ ledger = ledger0 \o accepted

\* The page a request of the current call was answered with
PageOf(k) == Upstream(requests[k][1], requests[k][2])

\* C4: a page with zero entries ends the call at once (no request follows
\* it): the call returns the empty list, logs at info level and leaves the
\* ledger as it was, whatever was accepted from earlier pages.
C4_EmptyPageEndsCall ==
    /\ \A k \in 1..(Len(requests) - 1) : PageOf(k) # <<>>
    /\ (requests # <<>> /\ PageOf(Len(requests)) = <<>> /\ exit # "URLError")
           => /\ FetchEnded
              /\ outcome = "returned"
              /\ exit = "empty_page"
              /\ ret = <<>>
              /\ ledger = ledger0
              /\ log # <<>>
              /\ log[Len(log)] = LogEntry("info", "No papers found in the response")

\* An empty page ended a call that had accepted records from earlier pages.
C4_Witness ==
    /\ FetchEnded
    /\ exit = "empty_page"
    /\ accepted # <<>>
    /\ Len(requests) >= 2

\* The three rejections of validation, as the claim lists them
ShouldReject(e) ==
    \/ e.title = "Error"
    \/ e.url.kind \in {"missing", "junk"}
    \/ ~e.summary

RejectionEvent(e) ==
    IF e.title = "Error" THEN "Error fetching the paper"
    ELSE IF e.url.kind \in {"missing", "junk"} THEN "Paper without a valid URL id"
    ELSE "Paper without summary/abstract"

IsErrorLevel(entry) == entry.level = "error"

\* C5: an entry that validation rejects is never among the returned records,
\* no line is appended to the ledger for it, and each rejection logs one
\* error-level entry.
C5_RejectedNeverReturned ==
    /\ \A i \in DOMAIN ret :
           ret[i].kind = "ArxivPaper" /\ ~ShouldReject(ret[i].entry)
    /\ \A j \in DOMAIN AppendedLines :
           \E i \in DOMAIN ret :
               ret[i].id = AppendedLines[j] /\ ~ShouldReject(ret[i].entry)
    /\ LET errors == SelectSeq(log, IsErrorLevel)
       IN /\ Len(errors) = Len(rejected)
          /\ \A k \in DOMAIN rejected :
                 /\ ShouldReject(rejected[k])
                 /\ errors[k].event = RejectionEvent(rejected[k])

\* A call that rejected an entry for its URL has returned.
C5_Witness ==
    /\ FetchEnded
    /\ outcome = "returned"
    /\ \E k \in DOMAIN rejected :
           rejected[k].title # "Error" /\ rejected[k].url.kind \in {"missing", "junk"}
    /\ accepted # <<>>

\* C6 (as claimed): no call ends with an uncaught error: fetch, download_pdf
\* and get_text all hand a value to the caller.
C6_NoFailureIsFatal ==
    /\ outcome # "raised"
    /\ dl.outcome # "raised"
    /\ gt.outcome # "raised"

---------------------------------------------------------------------------
(* download_pdf and get_text called on a content folder *)

MaxPages == 2       \* pages a backend yields

PageTexts == {<<>>, <<"a">>, <<"a", "\n">>}

Paths == {NonePath, EmptyPath, OtherPath} \cup {PdfPath(id) : id \in Ids}

Loaders == AvailableLoaders \cup {"unknown"}

InitIO ==
    /\ InitIdleFetch
    /\ InitIdleIO
    /\ InitIdleText
    /\ InitIdleOrch

DownloadPdfCall ==
    \E id \in Ids, write \in BOOLEAN, net \in NetOutcomes :
        LET r == download_pdf(id, write, net, files)
        IN /\ dl' = [id |-> id, write |-> write, net |-> net,
                     outcome |-> r.outcome, ret |-> r.ret, log |-> r.log]
           /\ files' = r.files
           /\ gt' = NoGetText
           /\ UNCHANGED <<fetchVars, textVars, orchVars, recVars>>

GetTextCall ==
    \E p \in Paths, loader \in Loaders, fails \in BOOLEAN,
       pages \in SeqsUpTo(PageTexts, MaxPages) :
        LET r == get_text(p, loader, [fails |-> fails, pages |-> pages], files)
        IN /\ gt' = [path |-> p, loader |-> loader, fails |-> fails,
                     outcome |-> r.outcome, ret |-> r.ret, log |-> r.log,
                     invoked |-> r.invoked]
           /\ dl' = NoDownload
           /\ UNCHANGED <<files, fetchVars, textVars, orchVars, recVars>>

NextIO ==
    \/ DownloadPdfCall
    \/ GetTextCall

SpecIO == InitIO /\ [][NextIO]_vars

\* The download met a transport-level failure
TransportFailed(call) ==
    \/ call.net \in {"timeout", "connection_error", "http_error"}
    \/ call.net = "stream_error" /\ call.write

\* C7: download_pdf never raises on a transport-level failure, also one met
\* while the body is streamed: it logs the failure and returns None; without
\* a failure it returns <content folder>/<identifier>.pdf.
C7_DownloadNeverRaises ==
    dl.outcome # "none" =>
        /\ dl.outcome = "returned"
        /\ IF TransportFailed(dl)
           THEN /\ dl.ret = NonePath
                /\ \E i \in DOMAIN dl.log : dl.log[i].level = "error"
           ELSE dl.ret = PdfPath(dl.id)

\* A download failed while its body was streamed to the file.
C7_Witness ==
    /\ dl.outcome = "returned"
    /\ dl.net = "stream_error"
    /\ dl.write
    /\ dl.ret = NonePath
    /\ File(dl.id, "partial") \in files

\* The path names no existing file with the .pdf extension
InvalidPath(p, fs) ==
    \/ p.kind \in {"None", "empty", "other"}
    \/ ~\E f \in fs : f.name = p.name

\* C8 (as claimed): get_text on a missing path, a path without the .pdf
\* extension, None or an unknown backend name returns an empty result, logs
\* the failure, does not raise and invokes no backend.
C8_InvalidInputIsLogged ==
    (gt.outcome # "none" /\ (InvalidPath(gt.path, files) \/ gt.loader \notin AvailableLoaders))
        => /\ gt.outcome = "returned"
           /\ gt.ret = <<>>
           /\ ~gt.invoked
           /\ gt.log # <<>>

---------------------------------------------------------------------------
(* delete_references applied to a text *)

MaxRefsLen == 5     \* tokens in a text given to delete_references

RefsAlphabet == {"\n", "REF", "SUP", "[1]", " ", "a"}

InitRefs ==
    /\ InitIdleFetch
    /\ InitIdleIO
    /\ InitIdleOrch
    /\ text \in SeqsUpTo(RefsAlphabet, MaxRefsLen)
    /\ refs_out = <<>>
    /\ clean_out = <<>>
    /\ text_log = <<>>
    /\ applied = {}

DeleteReferencesCall ==
    /\ "delete_references" \notin applied
    /\ refs_out' = delete_references(text)
    /\ applied' = applied \cup {"delete_references"}
    /\ UNCHANGED <<text, clean_out, text_log, fetchVars, ioVars, orchVars, recVars>>

NextRefs == DeleteReferencesCall

SpecRefs == InitRefs /\ [][NextRefs]_vars

\* The function the claim describes: s is the first heading or citation
\* start, e the first supplemental heading after s
ClaimedDeleteReferences(t) ==
    LET s == LeastOrZero({i \in 1..Len(t) : StartMatchAt(t, i)})
        e == LeastOrZero({i \in 1..Len(t) : i > s /\ EndMatchAt(t, i)})
    IN IF s = 0 THEN t
       ELSE IF e # 0 THEN SubSeq(t, 1, s - 1) \o SubSeq(t, e, Len(t))
       ELSE SubSeq(t, 1, s - 1)

\* C9 (as claimed): delete_references returns text[:s] + text[e:] with e the
\* first supplemental heading after s (text[:s] without one, the text itself
\* without s), and its result is never longer than its argument.
C9_EqualsReferenceFunction ==
    "delete_references" \in applied =>
        /\ refs_out = ClaimedDeleteReferences(text)
        /\ Len(refs_out) <= Len(text)

---------------------------------------------------------------------------
(* clean_text applied to a text *)

MaxCleanLen == 6    \* tokens in a text given to clean_text

CleanAlphabet == {"\n", " ", "\t", "-", "a", "ARX"}

InitClean ==
    /\ InitIdleFetch
    /\ InitIdleIO
    /\ InitIdleOrch
    /\ text \in SeqsUpTo(CleanAlphabet, MaxCleanLen)
    /\ refs_out = <<>>
    /\ clean_out = <<>>
    /\ text_log = <<>>
    /\ applied = {}

CleanTextCall ==
    /\ "clean_text" \notin applied
    /\ LET r == clean_text(text)
       IN /\ clean_out' = r.text
          /\ text_log' = text_log \o r.log
    /\ applied' = applied \cup {"clean_text"}
    /\ UNCHANGED <<text, refs_out, fetchVars, ioVars, orchVars, recVars>>

NextClean == CleanTextCall

SpecClean == InitClean /\ [][NextClean]_vars

\* The text is u - "\n" v with u and v made of letters only
IsBrokenWord(t) ==
    \E k \in 2..(Len(t) - 2) :
        /\ t[k] = "-" /\ t[k + 1] = "\n"
        /\ \A i \in DOMAIN t : i \notin {k, k + 1} => t[i] = "a"

Letter(c) == c = "a"

\* C10: clean_text returns "" with a warning on the empty text and logs
\* nothing otherwise; its result has no newline and no whitespace at either
\* end; a word broken by a hyphen and a line break is rejoined; "a" and "b"
\* four newlines apart become "a b"; and the steps act in the claimed order:
\* the blanks around a stripped arXiv identifier are collapsed after it is
\* stripped, and an indentation is stripped before its newline becomes a space.
C10_CleanText ==
    "clean_text" \in applied =>
        /\ text = <<>> =>
               /\ clean_out = <<>>
               /\ text_log = <<LogEntry("warning", "No text provided for cleaning.")>>
        /\ text # <<>> => text_log = <<>>
        /\ \A i \in DOMAIN clean_out : clean_out[i] # "\n"
        /\ clean_out # <<>> =>
               clean_out[1] \notin Whitespace /\ clean_out[Len(clean_out)] \notin Whitespace
        /\ IsBrokenWord(text) => clean_out = SelectSeq(text, Letter)
        /\ text = <<"a", " ", "ARX", " ", "a">> => clean_out = <<"a", " ", "a">>
        /\ text = <<"a", "\n", "\t", "a">> => clean_out = <<"a", " ", "a">>
        /\ text = <<"a", "\n", "\n", "\n", "\n", "a">> => clean_out = <<"a", " ", "a">>

\* clean_text was applied to a text with two words four newlines apart.
C10_Witness ==
    /\ "clean_text" \in applied
    /\ text = <<"a", "\n", "\n", "\n", "\n", "a">>
    /\ clean_out = <<"a", " ", "a">>

---------------------------------------------------------------------------
(* The two orchestrators, arxiv_fetch_and_extract and                      *)
(* download_pattern_papers: the fetcher is constructed, fetch is called    *)
(* (once, or n_fetch_batches times), and each record is downloaded, read   *)
(* and cleaned in turn.                                                    *)

MaxOrchFeed == 2     \* entries in the feed an orchestrator runs against
MaxOrchResults == 2  \* its max_results ranges over 1..MaxOrchResults

\* The timeout argument of a network request, in seconds, or none
Timeout(seconds) == [set |-> TRUE, seconds |-> seconds]
NoTimeout == [set |-> FALSE, seconds |-> 0]

\* fetcher.py:40, session.head(..., timeout=30)
WarmupTimeout == Timeout(30)
\* fetcher.py:101, urllib.request.urlopen(url): no timeout is passed, and the
\* default of the socket module is to wait without limit
FeedTimeout == NoTimeout
\* downloader.py:16, session.get(..., stream=True, timeout=60)
DownloadTimeout == Timeout(60)

\* What becomes of a request that the remote side never answers
Stalled(timeout) == IF timeout.set THEN "timeout" ELSE "blocked"

\* pattern.search(text) with DMFT_PATTERN
PatternSearch(t) == \E i \in DOMAIN t : t[i] = "DMFT"

\* (mutant) the file of a paper that does not match is left in the folder
Unlink_Kept(fs, id) == fs

\* pdf_path.unlink()
Unlink(fs, id) == {f \in fs : f.name # id}

\* (mutant) the text is cleaned first and the references deleted after
DeleteReferencesAndClean_CleanFirst(raw) == delete_references(clean_text(raw).text)

\* extractor.py:209-210 and 284-285
DeleteReferencesAndClean(raw) == clean_text(delete_references(raw)).text

\* An ArxivPaper with its text attribute (default "")
WithText(p, t) == [kind |-> p.kind, id |-> p.id, entry |-> p.entry, text |-> t]

RECURSIVE WithEmptyTexts(_)
WithEmptyTexts(items) ==
    IF items = <<>> THEN <<>>
    ELSE <<WithText(Head(items), <<>>)>> \o WithEmptyTexts(Tail(items))

\* The PDFs upstream: what a backend makes of the downloaded file
Doc(fails, pages) == [known |-> TRUE, fails |-> fails, pages |-> pages]

DocTexts ==
    {<<"\n">>,
     <<"a", "-", "\n", "a">>,
     <<"DMFT", " ", "REF", "\n", "a">>,
     <<"DMFT", "\n", "REF", "\n", "a">>,
     <<"a", "\n", "REF", "\n", "DMFT">>}

OrchDocs ==
    {Doc(TRUE, <<>>), Doc(FALSE, <<>>),
     Doc(FALSE, <<<<"DMFT", "\n">>, <<"REF", "\n", "a">>>>)}
    \cup {Doc(FALSE, <<t>>) : t \in DocTexts}

OrchFns == {"arxiv_fetch_and_extract", "download_pattern_papers"}

OrchEntries == {Good(id) : id \in Ids} \cup {NoSummaryEntry}

InitOrch ==
    /\ feed \in SeqsUpTo(OrchEntries, MaxOrchFeed)
    /\ max_results \in 1..MaxOrchResults
    /\ batch_size \in 1..MaxBatch
    /\ ledger = <<>>
    /\ pc = "idle"
    /\ fetched_ids = {}
    /\ new_papers = <<>>
    /\ start_index = 0
    /\ requests = <<>>
    /\ log = <<>>
    /\ outcome = "none"
    /\ ret = <<>>
    /\ exit = "none"
    /\ ledger0 = <<>>
    /\ accepted = <<>>
    /\ rejected = <<>>
    /\ ncalls = 0
    /\ InitIdleIO
    /\ InitIdleText
    /\ InitIdleOrch

\* extractor.py:180-187 and 255-266: the fetcher is constructed, which sends
\* the warm-up request of fetcher.py:40; nothing catches its failure
OrchCall ==
    /\ orch.fn = "none"
    /\ \E fn \in OrchFns, loader \in Loaders, n \in 0..MaxCalls,
          warmup \in {"ok", "error", "stall"} :
        LET n_fetch_batches == IF fn = "download_pattern_papers" THEN n ELSE 1
            head == IF warmup = "stall" THEN Stalled(WarmupTimeout) ELSE warmup
        IN orch' = [NoOrch EXCEPT
                       !.fn = fn,
                       !.loader = loader,
                       !.n_left = n_fetch_batches,
                       !.pc = IF head = "blocked" THEN "blocked"
                              ELSE IF head # "ok" THEN "raised"
                              ELSE IF n_fetch_batches = 0 THEN "returned"
                              ELSE "fetch"]
    /\ UNCHANGED <<fetchVars, ioVars, textVars, docs, trace, recVars>>

\* extractor.py:190 and 268: fetcher.fetch(batch_size=batch_size)
OrchFetchBegin ==
    /\ orch.pc = "fetch"
    /\ ncalls = orch.fetched
    /\ FetchBegin

OrchFetchPage ==
    /\ orch.pc = "fetch"
    /\ FetchPage

OrchFetchPageTransportError ==
    /\ orch.pc = "fetch"
    /\ FetchPageTransportError

OrchFetchSave ==
    /\ orch.pc = "fetch"
    /\ FetchSave

\* fetcher.py:101: the remote side never answers the request of a page
OrchFetchPageStalls ==
    /\ orch.pc = "fetch"
    /\ pc = "loop"
    /\ Len(new_papers) < max_results
    /\ requests' = Append(requests,
                          <<start_index, Min(batch_size, max_results - Len(new_papers))>>)
    /\ IF Stalled(FeedTimeout) = "blocked"
       THEN /\ pc' = "blocked"
            /\ orch' = [orch EXCEPT !.pc = "blocked"]
            /\ UNCHANGED <<outcome, ret, exit>>
       ELSE /\ Finish("raised", <<>>, "URLError")
            /\ UNCHANGED orch
    /\ UNCHANGED <<feed, max_results, batch_size, ledger, fetched_ids, new_papers,
                   start_index, log, ledger0, accepted, rejected, ncalls,
                   ioVars, textVars, docs, trace, recVars>>

\* The fetch call is over: its exception reaches the caller of the
\* orchestrator, or its list is what the for loop of line 195 / 269 iterates
OrchFetched ==
    /\ orch.pc = "fetch"
    /\ pc = "idle"
    /\ ncalls = orch.fetched + 1
    /\ orch' = IF outcome = "raised"
               THEN [orch EXCEPT !.pc = "raised", !.fetched = @ + 1]
               ELSE [orch EXCEPT !.pc = "papers", !.fetched = @ + 1,
                                 !.papers = WithEmptyTexts(ret), !.i = 1]
    /\ UNCHANGED <<fetchVars, ioVars, textVars, docs, trace, recVars>>

\* What the run records of one record it processed
Step(paper, d, g, in_folder, attached, value, event) ==
    [iter |-> orch.fetched, id |-> paper.id, net |-> d.net, path |-> d.ret,
     extraction |-> g.outcome, raw |-> g.ret, in_folder |-> in_folder,
     attached |-> attached, text |-> value, event |-> event]

\* extractor.py:195-214 and 269-290: one iteration of `for paper in papers`
OrchPaper ==
    /\ orch.pc = "papers"
    /\ orch.i <= Len(orch.papers)
    /\ \E net \in NetOutcomes \cup {"stall"}, doc \in OrchDocs :
        LET paper == orch.papers[orch.i]
            answer == IF net = "stall" THEN Stalled(DownloadTimeout) ELSE net
            r == download_pdf(paper.id, TRUE, answer, files)
            d == [id |-> paper.id, write |-> TRUE, net |-> answer,
                  outcome |-> r.outcome, ret |-> r.ret, log |-> r.log]
            pdf == IF docs[paper.id].known THEN docs[paper.id] ELSE doc
            t == get_text(r.ret, orch.loader,
                          [fails |-> pdf.fails, pages |-> pdf.pages], r.files)
            g == [path |-> r.ret, loader |-> orch.loader, fails |-> pdf.fails,
                  outcome |-> t.outcome, ret |-> t.ret, log |-> t.log,
                  invoked |-> t.invoked]
            InFolder(fs) == \E f \in fs : f.name = paper.id
            value == DeleteReferencesAndClean(t.ret)
            kept == WithText(paper, value)
        IN IF answer = "blocked"
           THEN \* session.get never returns
                /\ orch' = [orch EXCEPT !.pc = "blocked"]
                /\ UNCHANGED <<files, dl, gt, docs, trace>>
           ELSE /\ dl' = d
                /\ gt' = g
                /\ docs' = IF r.ret.kind = "pdf"
                           THEN [docs EXCEPT ![paper.id] = pdf] ELSE docs
                /\ IF t.outcome = "raised"
                   THEN \* the exception of the backend leaves the orchestrator
                        /\ orch' = [orch EXCEPT !.pc = "raised"]
                        /\ files' = r.files
                        /\ trace' = Append(trace, Step(paper, d, g, InFolder(r.files),
                                                       FALSE, <<>>, "none"))
                   ELSE IF t.ret = <<>>
                   THEN \* lines 203-205 and 274-276
                        /\ orch' = [orch EXCEPT !.i = @ + 1]
                        /\ files' = r.files
                        /\ trace' = Append(trace, Step(paper, d, g, InFolder(r.files),
                                               FALSE, <<>>, "No text extracted from the PDF."))
                   ELSE IF orch.fn = "arxiv_fetch_and_extract"
                   THEN \* lines 209-214
                        /\ orch' = [orch EXCEPT !.i = @ + 1, !.papers[orch.i] = kept]
                        /\ files' = r.files
                        /\ trace' = Append(trace, Step(paper, d, g, InFolder(r.files),
                                               TRUE, value, "Text extracted and stored in model."))
                   ELSE IF ~PatternSearch(t.ret)
                   THEN \* lines 279-281
                        /\ orch' = [orch EXCEPT !.i = @ + 1]
                        /\ files' = Unlink(r.files, paper.id)
                        /\ trace' = Append(trace, Step(paper, d, g,
                                               InFolder(Unlink(r.files, paper.id)),
                                               FALSE, <<>>, "none"))
                   ELSE \* lines 284-290
                        /\ orch' = [orch EXCEPT !.i = @ + 1,
                                                !.papers[orch.i] = kept,
                                                !.files = Append(@, r.ret),
                                                !.all_papers = Append(@, kept)]
                        /\ files' = r.files
                        /\ trace' = Append(trace, Step(paper, d, g, InFolder(r.files),
                                                       TRUE, value, "none"))
    /\ UNCHANGED <<fetchVars, textVars, recVars>>

\* The for loop over the records is over: line 215 returns; line 267 starts
\* the next outer iteration, or line 291 returns
OrchLoopEnd ==
    /\ orch.pc = "papers"
    /\ orch.i > Len(orch.papers)
    /\ orch' = [orch EXCEPT !.n_left = @ - 1,
                            !.pc = IF orch.n_left > 1 THEN "fetch" ELSE "returned"]
    /\ UNCHANGED <<fetchVars, ioVars, textVars, docs, trace, recVars>>

NextOrch ==
    \/ OrchCall
    \/ OrchFetchBegin
    \/ OrchFetchPage
    \/ OrchFetchPageTransportError
    \/ OrchFetchPageStalls
    \/ OrchFetchSave
    \/ OrchFetched
    \/ OrchPaper
    \/ OrchLoopEnd

SpecOrch == InitOrch /\ [][NextOrch]_vars

---------------------------------------------------------------------------
(* Properties of the orchestrators *)

\* C11 (as claimed): once its one fetch call has returned, arxiv_fetch_and_extract
\* goes through the records and returns them all, whatever happens to each:
\* the returned list has the records of fetch, in order; a record whose
\* download failed or whose extraction gave nothing keeps the empty text; and
\* the run is never ended by what happens to one record.
C11_ReturnsAllFetched ==
    (orch.fn = "arxiv_fetch_and_extract" /\ orch.fetched = 1 /\ outcome = "returned")
        => /\ orch.pc \in {"papers", "returned"}
           /\ Len(orch.papers) = Len(ret)
           /\ \A k \in DOMAIN ret :
                  orch.papers[k].id = ret[k].id /\ orch.papers[k].entry = ret[k].entry
           /\ \A k \in DOMAIN trace :
                  (trace[k].path = NonePath \/ trace[k].raw = <<>>)
                      => orch.papers[k].text = <<>>
           /\ orch.pc = "returned" => Len(trace) = Len(ret)

\* The raw text of a processed record is not empty and the pattern is not in it
Mismatch(step) ==
    /\ step.extraction = "returned"
    /\ step.raw # <<>>
    /\ \A i \in DOMAIN step.raw : step.raw[i] # "DMFT"

\* C12: in download_pattern_papers the file of a record whose extracted text
\* is not empty and does not match the pattern is gone from the content
\* folder when the step ends and stays gone until the next record is taken,
\* and neither its path nor its record is in the two lists.
C12_MismatchIsDeleted ==
    orch.fn = "download_pattern_papers" =>
        \A k \in DOMAIN trace :
            Mismatch(trace[k]) =>
                /\ ~trace[k].in_folder
                /\ k = Len(trace) => ~\E f \in files : f.name = trace[k].id
                /\ PdfPath(trace[k].id) \notin Range(orch.files)
                /\ \A j \in DOMAIN orch.all_papers :
                       orch.all_papers[j].id # trace[k].id

\* A run of download_pattern_papers has returned one kept record after it
\* deleted the file of a record that did not match.
C12_Witness ==
    /\ orch.fn = "download_pattern_papers"
    /\ orch.pc = "returned"
    /\ orch.files # <<>>
    /\ \E k \in DOMAIN trace : Mismatch(trace[k]) /\ trace[k].path # NonePath

\* C13 (as claimed): no call waits forever for a remote side that never
\* answers: each request, of the warm-up, of a feed page and of a PDF, ends by
\* its timeout.
C13_NoCallBlocksForever ==
    /\ orch.pc # "blocked"
    /\ pc # "blocked"

\* C17: in both orchestrators a text is attached only when the extracted text
\* is not empty, and it is the cleaned output of reference removal applied to
\* the raw text; it holds no newline, and reference removal changes neither it
\* nor the cleaned raw text; the text a record of the run carries is the one
\* attached in a step.
C17_ReferencesBeforeCleaning ==
    /\ \A k \in DOMAIN trace :
           /\ trace[k].attached =>
                  /\ trace[k].raw # <<>>
                  /\ trace[k].text = clean_text(delete_references(trace[k].raw)).text
                  /\ \A i \in DOMAIN trace[k].text : trace[k].text[i] # "\n"
                  /\ delete_references(trace[k].text) = trace[k].text
           /\ delete_references(clean_text(trace[k].raw).text)
                  = clean_text(trace[k].raw).text
    /\ \A k \in DOMAIN orch.papers :
           orch.papers[k].text # <<>> =>
               \E j \in DOMAIN trace :
                   /\ trace[j].attached
                   /\ trace[j].id = orch.papers[k].id
                   /\ trace[j].text = orch.papers[k].text

\* A run has returned a record whose references, after the pattern and before
\* more text, were removed from its text.
C17_Witness ==
    /\ orch.pc = "returned"
    /\ \E k \in DOMAIN trace :
           /\ trace[k].attached
           /\ trace[k].raw = <<"DMFT", "\n", "REF", "\n", "a">>
           /\ trace[k].text = <<"DMFT">>
           /\ \E j \in DOMAIN orch.papers : orch.papers[j].text = trace[k].text

\* The download of a processed record succeeded, its extracted text is not
\* empty, and the pattern is in it
Match(step) ==
    /\ step.path # NonePath
    /\ step.extraction = "returned"
    /\ step.raw # <<>>
    /\ \E i \in DOMAIN step.raw : step.raw[i] = "DMFT"

RECURSIVE MatchedIds(_)
MatchedIds(steps) ==
    IF steps = <<>> THEN <<>>
    ELSE (IF Match(Head(steps)) THEN <<Head(steps).id>> ELSE <<>>)
             \o MatchedIds(Tail(steps))

\* C18 (as claimed): in download_pattern_papers, at every moment, the two
\* lists have the same length, the path at position i is <content
\* folder>/<identifier>.pdf of the record at position i, the records are
\* those whose download succeeded and whose raw text was not empty and
\* matched, the file of each is in the content folder, and no identifier is
\* in the lists twice.
C18_ParallelLists ==
    orch.fn = "download_pattern_papers" =>
        /\ Len(orch.files) = Len(orch.all_papers)
        /\ \A i \in DOMAIN orch.all_papers :
               /\ orch.files[i] = PdfPath(orch.all_papers[i].id)
               /\ \E f \in files : f.name = orch.all_papers[i].id
        /\ MapId(orch.all_papers) = MatchedIds(trace)
        /\ NoDuplicates(MapId(orch.all_papers))

\* The download of a processed record failed, or its extraction gave nothing,
\* or the pattern filter dropped it
Dropped(step) ==
    \/ step.path = NonePath
    \/ step.extraction = "returned" /\ step.raw = <<>>
    \/ orch.fn = "download_pattern_papers" /\ Mismatch(step)

\* C21 (as claimed): in both orchestrators the identifiers of the batch a
\* fetch call returned are lines of the ledger from before the first download
\* of the batch, and stay; and a record that was dropped is in no batch of a
\* later outer iteration: it is not processed again.
C21_LedgeredBeforeDownload ==
    /\ orch.pc = "papers" =>
           \A k \in DOMAIN orch.papers : orch.papers[k].id \in LedgerIds(ledger)
    /\ \A k \in DOMAIN trace : trace[k].id \in LedgerIds(ledger)
    /\ \A j \in DOMAIN trace :
           Dropped(trace[j]) =>
               /\ \A k \in DOMAIN trace :
                      trace[k].iter > trace[j].iter => trace[k].id # trace[j].id
               /\ (orch.pc = "papers" /\ orch.fetched > trace[j].iter) =>
                      \A k \in DOMAIN orch.papers : orch.papers[k].id # trace[j].id

---------------------------------------------------------------------------
(* One feed entry taken through the body of the for loop of fetch: the     *)
(* validation of lines 116-134 and the construction of lines 141-183.      *)
(*                                                                         *)
(* The URL of the entry and the text of its comment are sequences of       *)
(* tokens.  In a URL "/" is the separator, "abs", "pdf" and ".pdf" are     *)
(* these substrings and every other token is text without any of them.     *)
(* In a comment "0", "1", "2" are digits, " " the space, "," the comma,    *)
(* "page", "pages", "figure", "figures" these words and "a" other text.    *)
(* A field that xmltodict gives as one dict or as a list of dicts has      *)
(* shape "single" or "list"; "missing" is the absent element.              *)

MaxUrlTail == 3      \* tokens of a URL after "http://arxiv.org/"

\* An optional integer: None, or int
None == [set |-> FALSE, value |-> 0]
Some(n) == [set |-> TRUE, value |-> n]

Digits == {"0", "1", "2"}

DigitValue(c) == CASE c = "0" -> 0 [] c = "1" -> 1 [] c = "2" -> 2

\* int(s) for a string of decimal digits
RECURSIVE IntOf(_)
IntOf(ds) ==
    IF ds = <<>> THEN 0
    ELSE 10 * IntOf(SubSeq(ds, 1, Len(ds) - 1)) + DigitValue(ds[Len(ds)])

\* The match of (\d+) *pages*, *(\d+) *figures* that starts at index i
PagesFiguresMatchAt(c, i) ==
    LET p_end == RunEnd(c, i, Digits)
        pages == RunEnd(c, p_end + 1, {" "}) + 1
        comma == pages + 1
        f_start == RunEnd(c, comma + 1, {" "}) + 1
        f_end == RunEnd(c, f_start, Digits)
        figures == RunEnd(c, f_end + 1, {" "}) + 1
    IN [ok |-> /\ p_end >= i
               /\ comma <= Len(c)
               /\ c[pages] \in {"page", "pages"}
               /\ c[comma] = ","
               /\ f_end >= f_start
               /\ figures <= Len(c)
               /\ c[figures] \in {"figure", "figures"},
        n_pages |-> SubSeq(c, i, p_end),
        n_figures |-> SubSeq(c, f_start, f_end)]

\* lines 67-83: re.search takes the leftmost match
_get_pages_and_figures(comment) ==
    LET i == LeastOrZero({j \in DOMAIN comment : PagesFiguresMatchAt(comment, j).ok})
        m == PagesFiguresMatchAt(comment, i)
    IN IF i # 0
       THEN <<Some(IntOf(m.n_pages)), Some(IntOf(m.n_figures))>>
       ELSE <<None, None>>

\* url_id.split("/")[-1]
LastSegment(u) ==
    LET slashes == {i \in DOMAIN u : u[i] = "/"}
        last == IF slashes = {} THEN 0
                ELSE CHOOSE i \in slashes : \A j \in slashes : j <= i
    IN SubSeq(u, last + 1, Len(u))

IsNotPdfSuffix(c) == c # ".pdf"

\* (mutant) the ".pdf" of the last segment is kept
ArxivIdFrom_WithPdf(u) == LastSegment(u)

\* line 137: url_id.split("/")[-1].replace(".pdf", "")
ArxivIdFrom(u) == SelectSeq(LastSegment(u), IsNotPdfSuffix)

\* line 172: url_id.replace("abs", "pdf")
PdfUrlFrom(u) == [i \in DOMAIN u |-> IF u[i] = "abs" THEN "pdf" ELSE u[i]]

\* lines 142-144 and 155-161: paper.get(key, []), and one dict becomes a list
AsList(field) == IF field.shape = "missing" THEN <<>> ELSE field.items

\* line 164: paper.get("arxiv:comment", {}).get("#text", "")
CommentText(c) == IF c.shape = "dict" THEN c.text ELSE <<>>

Rejected(event) ==
    [status |-> "rejected", event |-> event, id |-> <<>>, url |-> <<>>,
     pdf_url |-> <<>>, authors |-> <<>>, comment |-> <<>>, n_pages |-> None,
     n_figures |-> None, categories |-> <<>>]

Raised(error) == [Rejected("none") EXCEPT !.status = "raised", !.event = error]

\* lines 116-183 for an entry whose identifier is not in fetched_ids
ProcessEntry(e) ==
    IF e.title = "Error"
    THEN Rejected("Error fetching the paper")
    ELSE IF ~e.id.present \/ e.id.url = <<>> \/ "arxiv.org" \notin Range(e.id.url)
    THEN Rejected("Paper without a valid URL id")
    ELSE IF ~e.summary
    THEN Rejected("Paper without summary/abstract")
    ELSE LET url_id == e.id.url
             authors == AsList(e.author)
             categories == AsList(e.category)
             comment == CommentText(e.comment)
             counts == _get_pages_and_figures(comment)
         IN IF \E i \in DOMAIN authors : authors[i] = "unnamed"
            THEN Raised("ValidationError")     \* Author(name=None)
            ELSE IF e.comment.shape = "str"
            THEN Raised("AttributeError")      \* str has no .get
            ELSE IF e.title = "missing" \/ \E i \in DOMAIN categories : categories[i] = "None"
            THEN Raised("ValidationError")     \* ArxivPaper(title=None), categories=[None]
            ELSE [status |-> "accepted", event |-> "Paper fetched from arXiv.",
                  id |-> ArxivIdFrom(url_id), url |-> url_id,
                  pdf_url |-> PdfUrlFrom(url_id), authors |-> authors,
                  comment |-> comment, n_pages |-> counts[1],
                  n_figures |-> counts[2], categories |-> categories]

UrlPrefix == <<"http:", "/", "/", "arxiv.org", "/">>

UrlIds ==
    {[present |-> TRUE, url |-> UrlPrefix \o tail] :
        tail \in SeqsUpTo({"/", "abs", ".pdf", "1"}, MaxUrlTail)}
    \cup {[present |-> FALSE, url |-> <<>>],
          [present |-> TRUE, url |-> <<>>],
          [present |-> TRUE, url |-> <<"http:", "/", "/", "example.org", "/", "abs", "/", "1">>]}

Authors ==
    {[shape |-> "missing", items |-> <<>>],
     [shape |-> "single", items |-> <<"named">>],
     [shape |-> "single", items |-> <<"unnamed">>],
     [shape |-> "list", items |-> <<"named", "named">>]}

Categories ==
    {[shape |-> "missing", items |-> <<>>],
     [shape |-> "single", items |-> <<"cond-mat.str-el">>],
     [shape |-> "single", items |-> <<"None">>],
     [shape |-> "list", items |-> <<"cond-mat.str-el">>],
     [shape |-> "list", items |-> <<"cond-mat.str-el", "cond-mat.mtrl-sci">>]}

TenPagesTwoFigures == <<"1", "0", " ", "pages", ",", " ", "2", " ", "figures">>

CommentTexts ==
    {<<>>, <<"a">>, TenPagesTwoFigures,
     <<"1", "0", " ", "pages">>,
     <<"2", " ", "figures">>,
     <<"pages", ",", " ", "2", " ", "figures">>,
     <<"1", "page", ",", "2", "figure">>,
     <<"1", "2", " ", " ", "pages", ",", "1", "figures", " ", "a">>,
     <<"a", " ", "2", " ", "pages", ",", " ", "1", "0", " ", "figures", " ", "a">>,
     <<"1", "0", " ", "pages", " ", ",", " ", "2", " ", "figures">>}

Comments ==
    {[shape |-> "missing", text |-> <<>>], [shape |-> "str", text |-> <<"a">>]}
    \cup {[shape |-> "dict", text |-> t] : t \in CommentTexts}

InitRecord ==
    /\ InitIdleFetch
    /\ InitIdleIO
    /\ InitIdleText
    /\ orch = NoOrch
    /\ docs = [id \in Ids |-> NoDoc]
    /\ trace = <<>>
    /\ \E t \in {"text", "Error", "missing"}, s \in BOOLEAN :
           /\ t # "text" => s
           /\ feed_entry \in [title : {t}, id : UrlIds, summary : {s}, author : Authors,
                              category : Categories, comment : Comments]
    /\ record = NoRecord

ProcessEntryCall ==
    /\ record = NoRecord
    /\ record' = ProcessEntry(feed_entry)
    /\ UNCHANGED <<fetchVars, ioVars, textVars, orchVars, feed_entry>>

NextRecord == ProcessEntryCall

SpecRecord == InitRecord /\ [][NextRecord]_vars

\* s is the last path segment of the URL u: what follows its last "/"
IsLastSegment(u, s) ==
    \E k \in 0..Len(u) :
        /\ s = SubSeq(u, k + 1, Len(u))
        /\ \A i \in DOMAIN s : s[i] # "/"
        /\ k = 0 \/ u[k] = "/"

\* The fields of an accepted record that the claim derives from the URL (but
\* the identifier), the comment and the categories; and the acceptance of an
\* entry that has no author, category or comment
RecordFieldsAsClaimed ==
    /\ record.status = "accepted" =>
          LET url == feed_entry.id.url
              c == feed_entry.comment
              cat == feed_entry.category
          IN /\ record.url = url
             /\ Len(record.pdf_url) = Len(url)
             /\ \A i \in DOMAIN url :
                    record.pdf_url[i] = IF url[i] = "abs" THEN "pdf" ELSE url[i]
             /\ record.n_pages.set = record.n_figures.set
             /\ (c.shape = "missing" \/ c.text = <<>>) => ~record.n_pages.set
             /\ (\A i \in DOMAIN c.text : c.text[i] \notin {"page", "pages"})
                    => ~record.n_pages.set
             /\ (\A i \in DOMAIN c.text : c.text[i] \notin {"figure", "figures"})
                    => ~record.n_pages.set
             /\ c.text = TenPagesTwoFigures
                    => record.n_pages = Some(10) /\ record.n_figures = Some(2)
             /\ c.text = <<"a", " ", "2", " ", "pages", ",", " ", "1", "0", " ",
                           "figures", " ", "a">>
                    => record.n_pages = Some(2) /\ record.n_figures = Some(10)
             /\ cat.shape = "missing" => record.categories = <<>>
             /\ cat.shape \in {"single", "list"} => record.categories = cat.items
             /\ cat.shape = "single" => Len(record.categories) = 1
    /\ ( /\ record.status # "none"
         /\ feed_entry.title = "text"
         /\ feed_entry.summary
         /\ feed_entry.id.present
         /\ "arxiv.org" \in Range(feed_entry.id.url)
         /\ feed_entry.author.shape = "missing"
         /\ feed_entry.category.shape = "missing"
         /\ feed_entry.comment.shape = "missing" )
       => /\ record.status = "accepted"
          /\ record.authors = <<>>
          /\ record.categories = <<>>
          /\ record.n_pages = None
          /\ record.n_figures = None

\* C14 (as claimed): the identifier of an accepted record is the last path
\* segment of the URL of its entry, its PDF URL is that URL with "abs"
\* replaced by "pdf", its page and figure counts are the two integers of the
\* comment (both unset without a match), its categories are the terms of one
\* or several categories, and an entry without author, category or comment
\* is accepted with empty lists and unset counts.
C14_RecordFields ==
    /\ RecordFieldsAsClaimed
    /\ record.status = "accepted" => IsLastSegment(feed_entry.id.url, record.id)

\* C14 (amended): as claimed, but the identifier is the last path segment
\* without its occurrences of ".pdf".
C14_RecordFieldsAmended ==
    /\ RecordFieldsAsClaimed
    /\ record.status = "accepted" =>
           \E s \in SeqsUpTo({"abs", ".pdf", "1", "arxiv.org", "http:"}, MaxUrlTail + 1) :
               /\ IsLastSegment(feed_entry.id.url, s)
               /\ Len(record.id) = Cardinality({i \in DOMAIN s : s[i] # ".pdf"})
               /\ \A i \in DOMAIN record.id : record.id[i] # ".pdf"
               /\ \A i \in DOMAIN s :
                      s[i] # ".pdf" =>
                          record.id[Cardinality({j \in 1..i : s[j] # ".pdf"})] = s[i]

\* An entry whose URL ends in ".pdf", with one category and the comment
\* "10 pages, 2 figures", was accepted.
C14_Witness ==
    /\ record.status = "accepted"
    /\ feed_entry.id.url # <<>>
    /\ feed_entry.id.url[Len(feed_entry.id.url)] = ".pdf"
    /\ record.id = <<"1">>
    /\ feed_entry.category.shape = "single"
    /\ record.categories = <<"cond-mat.str-el">>
    /\ record.n_pages = Some(10)
    /\ record.n_figures = Some(2)

---------------------------------------------------------------------------
(* The page requests of a fetch call: their windows, and termination *)

\* C15 (as claimed): the k-th page request of a call starts at offset
\* (k-1)*batch_size and asks for min(batch_size, max_results - records
\* accepted so far) entries, and the cursor has advanced by batch_size after
\* every page that did not end the call.
C15_PageRequests ==
    [][ /\ Len(requests') = Len(requests) + 1 =>
               requests'[Len(requests')] =
                   <<Len(requests) * batch_size,
                     Min(batch_size, max_results - Len(accepted))>>
        /\ (pc = "loop" /\ pc' = "loop") =>
               start_index' = start_index + batch_size ]_vars

\* The fetch loop goes on: a page that is asked for is answered, and a call
\* that has its records saves and returns
SpecFair == Init /\ [][Next]_vars /\ WF_vars(Next)

\* C16: a fetch call ends.  The cursor is greater after every page that does
\* not end the call, the call asks for no page once max_results elements are
\* accumulated, a page past the end of the feed ends it, and so every call
\* that has started comes to its end.
C16_FetchTerminates ==
    /\ [][ /\ (pc = "loop" /\ pc' = "loop") => start_index' > start_index
           /\ (pc = "loop" /\ Len(new_papers) >= max_results) =>
                  (pc' = "idle" /\ requests' = requests)
           /\ (pc = "loop" /\ start_index >= Len(feed)) => pc' = "idle" ]_vars
    /\ (pc = "loop") ~> (pc = "idle")

\* A call has ended on a page past the end of a feed in which every entry
\* was a duplicate or was rejected.
C16_Witness ==
    /\ FetchEnded
    /\ exit = "empty_page"
    /\ Len(feed) >= 2
    /\ accepted = <<>>
    /\ rejected # <<>>
    /\ ledger0 # <<>>
    /\ start_index >= Len(feed)

\* The entries upstream that are well formed and not in the ledger as the
\* call found it
NewWellFormed ==
    {i \in DOMAIN feed :
        /\ ~ShouldReject(feed[i])
        /\ feed[i].title # "missing"
        /\ feed[i].author # "unnamed"
        /\ feed[i].url.id \notin LedgerIds(ledger0)}

\* C19 (as claimed): the list a fetch call returns is empty or has exactly
\* max_results records; and when the feed holds fewer than max_results
\* well-formed entries that are not in the ledger, the call returns the empty
\* list and appends nothing.
C19_AllOrNothing ==
    (FetchEnded /\ outcome = "returned") =>
        /\ ret = <<>> \/ Len(ret) = max_results
        /\ ret = <<>> => ledger = ledger0
        /\ Cardinality(NewWellFormed) < max_results =>
               ret = <<>> /\ ledger = ledger0

\* The feed offsets the k-th request of the call asks for
Window(k) == requests[k][1] .. (requests[k][1] + requests[k][2] - 1)

\* C20 (as claimed): every offset of the feed below the start of the last
\* request of a call lies in the window of an earlier request of the call.
C20_WindowsCoverFeed ==
    requests # <<>> =>
        \A o \in 0..(requests[Len(requests)][1] - 1) :
            o < Len(feed) => \E k \in 1..(Len(requests) - 1) : o \in Window(k)

=============================================================================
